---- MODULE Spec2Model ----
EXTENDS Integers, Sequences, FiniteSets, TLC

(***************************************************************************)
(* A model of the TIDAL MCP server (src/src/tidal_mcp/server.py).          *)
(*                                                                         *)
(* State: the persisted session file, the process-wide tidalapi session    *)
(* object, the remote playlists, and one record per tool invocation (its   *)
(* arguments, its position in the handler and what it has done so far).    *)
(* Every await of a handler is one step.  The tidalapi library and the     *)
(* remote service are the environment: each call to them answers with one  *)
(* of the outcomes the call site can observe (a value, a falsy value, an   *)
(* exception).                                                             *)
(*                                                                         *)
(* Four specifications share the actions: Spec serves the tools one        *)
(* invocation at a time; SpecClient is one caller of the playlist and      *)
(* album tools that remembers its answers, with a catalog that changes;    *)
(* SpecConc is two callers whose invocations interleave at every await;    *)
(* SpecLogin is one login call, whose effect on the session file is        *)
(* compared with that of the script src/authenticate.py.                   *)
(***************************************************************************)

\* ------------------------------------------------------------------------
\* Bounds of the model
\* ------------------------------------------------------------------------

\* Longest list a remote listing call (search, favorites, radio, ...) returns.
MaxRemoteList == 2

\* Most tracks a remote playlist holds.
MaxTracks == 2

\* ------------------------------------------------------------------------
\* Program constants
\* ------------------------------------------------------------------------

\* Cap of the search / artist / similar listings: min(max(1, limit), 50).
SearchCap == 50

\* Cap of the two radio tools: min(max(1, limit), 100).
RadioCap == 100

\* ------------------------------------------------------------------------
\* Values
\* ------------------------------------------------------------------------

Procs == {"p1", "p2"}

\* Python None / JSON null.
Null == "null"

Min(a, b) == IF a <= b THEN a ELSE b
Max(a, b) == IF a >= b THEN a ELSE b

Digits == {"0", "1", "2", "3", "4", "5", "6", "7", "8", "9"}

DigitVal(c) ==
    CASE c = "0" -> 0 [] c = "1" -> 1 [] c = "2" -> 2 [] c = "3" -> 3
      [] c = "4" -> 4 [] c = "5" -> 5 [] c = "6" -> 6 [] c = "7" -> 7
      [] c = "8" -> 8 [] c = "9" -> 9 [] OTHER -> 0

\* Identifier strings a caller may pass where a numeric id is expected, as
\* sequences of characters: "111", "222", "abc", "", "-5", " 7", "1a", "1_1".
S111 == <<"1", "1", "1">>
S222 == <<"2", "2", "2">>
Sabc == <<"a", "b", "c">>
IdStrings ==
    { S111, S222, Sabc, <<>>, <<"-", "5">>, <<" ", "7">>, <<"1", "a">>,
      <<"1", "_", "1">> }

\* Opaque ids of playlists, and of an album / artist / track.
PlaylistIds == {"pl1"}
EntityIds == {"e1"}

\* Track ids held by remote playlists.
TrackInts == {111, 222}

\* Values given for a limit parameter.
LimitInputs == {-1, 0, 1, 2, 50, 51, 100, 101, 1000}

\* ------------------------------------------------------------------------
\* The tools
\* ------------------------------------------------------------------------

SearchTools ==
    {"search_tracks", "search_albums", "search_artists", "search_playlists"}

FavListTools ==
    {"get_favorite_tracks", "get_favorite_albums", "get_favorite_artists"}

FavModTools ==
    {"add_track_to_favorites", "remove_track_from_favorites",
     "remove_album_from_favorites"}

PlaylistLookupTools ==
    {"get_playlist_tracks", "add_tracks_to_playlist",
     "remove_tracks_from_playlist", "update_playlist", "delete_playlist"}

RadioTools == {"get_track_radio", "get_artist_radio"}

ArtistListingTools == {"get_artist_albums", "get_artist_top_tracks"}

SimilarTools == {"get_similar_artists", "get_similar_albums"}

EntityLookupTools ==
    {"get_album_tracks", "get_artist", "get_album"}
        \cup RadioTools \cup ArtistListingTools \cup SimilarTools

LookupTools == PlaylistLookupTools \cup EntityLookupTools

CatalogTools ==
    SearchTools \cup FavListTools \cup FavModTools \cup LookupTools
        \cup {"get_user_playlists", "create_playlist"}

Tools == {"login"} \cup CatalogTools

\* The tools that take a numeric limit parameter.
LimitTools ==
    SearchTools \cup FavListTools \cup RadioTools \cup ArtistListingTools
        \cup SimilarTools \cup {"get_user_playlists", "get_playlist_tracks"}

\* ------------------------------------------------------------------------
\* The credential bundle and the session file
\* ------------------------------------------------------------------------

\* tidalapi.Session() as constructed: no credentials.
NoCreds ==
    [token_type |-> Null, session_id |-> Null, access_token |-> Null,
     refresh_token |-> Null, is_pkce |-> FALSE]

\* A bundle a previous run of login may have left on disk.
OldBundle ==
    [token_type |-> "Bearer", session_id |-> "s1", access_token |-> "t1",
     refresh_token |-> "r1", is_pkce |-> FALSE]

\* The session file: absent, empty (opened for writing, nothing written yet),
\* corrupt (not JSON), nokey (JSON without one of the keys read), or a bundle.
FileOf(kind, b) == [kind |-> kind, b |-> b]
FileAbsent == FileOf("absent", NoCreds)

\* What the OAuth device flow leaves in the session when it completes: the
\* library decides every field.
OAuthCreds ==
    [token_type : {Null, "Bearer"}, session_id : {"s1"},
     access_token : {"t2"}, refresh_token : {"r2"}, is_pkce : BOOLEAN]

\* The session id the remote "sessions" endpoint reports on a load.
RemoteSessionIds == {"s1", "s2"}

\* json.dumps(session_data) as login builds it from the session.
SessionData(m) ==
    [token_type |-> IF m.token_type = Null THEN "Bearer" ELSE m.token_type,
     session_id |-> IF m.session_id = Null THEN "" ELSE m.session_id,
     access_token |-> m.access_token,
     refresh_token |-> m.refresh_token,
     is_pkce |-> m.is_pkce]

\* session.load_oauth_session(token_type, access_token, refresh_token, None):
\* the three values given are stored before the remote is asked; is_pkce is
\* not given and takes the library's default; the session id is the remote's
\* answer, set only when the remote accepts the credentials.
LoadedSession(m, data, ok, sid) ==
    [token_type |-> data.token_type,
     session_id |-> IF ok THEN sid ELSE m.session_id,
     access_token |-> data.access_token,
     refresh_token |-> data.refresh_token,
     is_pkce |-> FALSE]

\* session.check_login(): a session holding no session id answers False
\* without asking the remote; otherwise the remote answers, or the call faults.
CheckLoginAnswers(m) ==
    IF m.session_id = Null THEN {"false"} ELSE {"true", "false", "fault"}

\* ------------------------------------------------------------------------
\* State
\* ------------------------------------------------------------------------

VARIABLES
    file,       \* the session file
    mem,        \* the global tidalapi session object
    playlists,  \* the remote playlists: id -> [exists, tracks]
    inv,        \* per caller: the tool invocation in progress
    fresh,      \* the process started without a session file and no OAuth
                \* flow has completed since
    saved,      \* the bundle login wrote last in this process
    hist,       \* what has happened so far, as the properties need it
    album       \* the remote album

vars == <<file, mem, playlists, inv, fresh, saved, hist, album>>

\* hist.invalidated: ensure_authenticated found the session file and returned
\* False, and no OAuth flow has completed since.  hist.stage, pl, ids: the
\* caller created playlist pl (stage 1) and then added the two tracks ids to
\* it (stage 2), with no other change of it since.  hist.last: what get_album
\* returned last, the album unchanged since; hist.stale: the album changed
\* while the invocation in progress was running.
NoHist ==
    [invalidated |-> FALSE, stage |-> 0, pl |-> Null, ids |-> <<>>,
     last |-> <<>>, stale |-> FALSE]

\* ------------------------------------------------------------------------
\* The remote album and its projection
\* ------------------------------------------------------------------------

\* An attribute the album object does not have (getattr's default applies),
\* for a string and for a number.
Missing == "missing"
MissingInt == -1

\* Album objects session.album(id) may answer with: one with every attribute,
\* one without artist, release date, num_tracks and duration.
FullAlbum ==
    [id |-> 7, name |-> "x", artist |-> "a", release_date |-> "2020",
     num_tracks |-> 10, duration |-> 100]

SparseAlbum ==
    [id |-> 7, name |-> "y", artist |-> Null, release_date |-> Missing,
     num_tracks |-> MissingInt, duration |-> MissingInt]

UndatedAlbum ==
    [id |-> 7, name |-> "x", artist |-> "a", release_date |-> Null,
     num_tracks |-> 10, duration |-> 100]

Albums == {FullAlbum, SparseAlbum, UndatedAlbum}

DigitChar(d) ==
    CASE d = 0 -> "0" [] d = 1 -> "1" [] d = 2 -> "2" [] d = 3 -> "3"
      [] d = 4 -> "4" [] d = 5 -> "5" [] d = 6 -> "6" [] d = 7 -> "7"
      [] d = 8 -> "8" [] d = 9 -> "9"

RECURSIVE StrOfNat(_)
\* str(n) of a natural number, as a sequence of characters.
StrOfNat(n) ==
    IF n < 10 THEN <<DigitChar(n)>>
    ELSE Append(StrOfNat(n \div 10), DigitChar(n % 10))

\* AlbumProjection with the session's id in place of the album's title.
AlbumProjectionOfSession(a) ==
    [id |-> StrOfNat(a.id),
     title |-> mem.session_id,
     artist |-> IF a.artist # Null THEN a.artist ELSE "Unknown Artist",
     release_date |-> IF a.release_date \notin {Missing, Null}
                      THEN a.release_date ELSE Null,
     num_tracks |-> IF a.num_tracks = MissingInt THEN 0 ELSE a.num_tracks,
     duration_seconds |-> IF a.duration = MissingInt THEN 0 ELSE a.duration,
     url |-> <<"h", "t", "t", "p", "s", ":", "/", "/", "t", "i", "d", "a",
               "l", ".", "c", "o", "m", "/", "b", "r", "o", "w", "s", "e",
               "/", "a", "l", "b", "u", "m", "/">> \o StrOfNat(a.id)]

\* The Album model get_album builds from the album object.
AlbumProjection(a) ==
    [id |-> StrOfNat(a.id),
     title |-> a.name,
     artist |-> IF a.artist # Null THEN a.artist ELSE "Unknown Artist",
     release_date |-> IF a.release_date \notin {Missing, Null}
                      THEN a.release_date ELSE Null,
     num_tracks |-> IF a.num_tracks = MissingInt THEN 0 ELSE a.num_tracks,
     duration_seconds |-> IF a.duration = MissingInt THEN 0 ELSE a.duration,
     url |-> <<"h", "t", "t", "p", "s", ":", "/", "/", "t", "i", "d", "a",
               "l", ".", "c", "o", "m", "/", "b", "r", "o", "w", "s", "e",
               "/", "a", "l", "b", "u", "m", "/">> \o StrOfNat(a.id)]


NoPlaylist == [exists |-> FALSE, tracks |-> <<>>]

\* What the library answered to the calls of ensure_authenticated and login,
\* "none" for a call not made; creds is the session the OAuth flow filled.
NoAnswers ==
    [load |-> "none", check |-> "none", oauth |-> "none", wait |-> "none",
     check2 |-> "none", open |-> "none", write |-> "none", creds |-> NoCreds]

\* A playlist's name and description, before any is known.
NoMeta == [name |-> Null, description |-> Null]

Idle ==
    [tool |-> "none", pc |-> "idle", id |-> Null, sid |-> <<>>, limit |-> 0,
     track_ids |-> <<>>, indices |-> <<>>, name |-> Null,
     description |-> Null,
     authOk |-> FALSE, calls |-> 0, outcome |-> "none", msgId |-> Null,
     effSet |-> FALSE, eff |-> 0, count |-> 0, data |-> NoCreds,
     fh |-> "closed", found |-> FALSE, absentAt |-> -1,
     fieldRead |-> FALSE, parsed |-> <<>>, sawFile |-> FALSE,
     sites |-> <<>>, checkFault |-> FALSE, failedAt |-> -1, raisedAt |-> -1,
     ret |-> <<>>, file0 |-> FileAbsent, heard |-> NoAnswers, delta |-> 0,
     cur |-> NoMeta, sent |-> NoMeta,
     upArtist |-> Null, artist |-> Null, bioFault |-> FALSE]

\* Argument records of a tool, over Idle's fields.
Args(t) ==
    IF t \in SearchTools \cup FavListTools \cup {"get_user_playlists"}
    THEN {[Idle EXCEPT !.limit = l] : l \in LimitInputs}
    ELSE IF t \in FavModTools
    THEN {[Idle EXCEPT !.sid = s] : s \in IdStrings}
    ELSE IF t = "get_playlist_tracks"
    THEN {[Idle EXCEPT !.id = i, !.limit = l] :
              i \in PlaylistIds, l \in LimitInputs}
    ELSE IF t = "create_playlist"
    THEN {[Idle EXCEPT !.name = "n", !.description = ""]}
    ELSE IF t = "add_tracks_to_playlist"
    THEN {[Idle EXCEPT !.id = i, !.track_ids = ts] :
              i \in PlaylistIds,
              ts \in {<<>>, <<S111>>, <<S111, S222>>, <<S111, Sabc>>}}
    ELSE IF t = "remove_tracks_from_playlist"
    THEN {[Idle EXCEPT !.id = i, !.track_ids = ts, !.indices = ix] :
              i \in PlaylistIds,
              ts \in {<<>>, <<S111>>, <<Sabc>>},
              ix \in {<<>>, <<0>>, <<0, 1>>}}
    ELSE IF t = "update_playlist"
    THEN {[Idle EXCEPT !.id = i, !.name = n, !.description = d] :
              i \in PlaylistIds, n \in {Null, "", "n"}, d \in {Null, "", "d"}}
    ELSE IF t = "delete_playlist"
    THEN {[Idle EXCEPT !.id = i] : i \in PlaylistIds}
    ELSE IF t \in {"get_album_tracks", "get_artist", "get_album"}
    THEN {[Idle EXCEPT !.id = i] : i \in EntityIds}
    ELSE IF t \in RadioTools \cup ArtistListingTools \cup SimilarTools
    THEN {[Idle EXCEPT !.id = i, !.limit = l] :
              i \in EntityIds, l \in LimitInputs}
    ELSE {Idle}

Init ==
    /\ file \in {FileAbsent, FileOf("corrupt", NoCreds),
                 FileOf("nokey", NoCreds), FileOf("bundle", OldBundle)}
    /\ mem = NoCreds
    /\ playlists \in
         {[i \in PlaylistIds |-> NoPlaylist],
          [i \in PlaylistIds |-> [exists |-> TRUE, tracks |-> <<111>>]]}
    /\ inv = [p \in Procs |-> Idle]
    /\ fresh = (file.kind = "absent")
    /\ saved = NoCreds
    /\ hist = NoHist
    /\ album = FullAlbum

\* ------------------------------------------------------------------------
\* Ends of an invocation
\* ------------------------------------------------------------------------

\* The handler returns its typed result.
Return(r) == [r EXCEPT !.pc = "done", !.outcome = "result"]

\* An awaited call to the library or to the file system is issued from the
\* place the handler is at.
Site(r) == [r EXCEPT !.sites = Append(@, r.pc)]

\* A step of the invocation raised an exception (caught or not); failedAt
\* keeps the number of calls issued before the first one.
Failed(r) == [r EXCEPT !.failedAt = IF @ < 0 THEN Len(r.sites) ELSE @]

\* An exception leaves the handler: raisedAt keeps the number of calls issued
\* by then.
Leaves(r) == [Failed(r) EXCEPT !.pc = "done", !.raisedAt = Len(r.sites)]

\* The handler raises ToolError; kind names the message.
Raise(r, kind) == [Leaves(r) EXCEPT !.outcome = kind]

\* An exception other than ToolError leaves the handler.
Escape(r) == [Leaves(r) EXCEPT !.outcome = "raw"]

\* A tool is invoked.  Invocations are served one at a time, so one caller
\* identity makes every behaviour of this specification.
Start(p) ==
    /\ p = "p1"
    /\ \A q \in Procs : inv[q].pc = "idle"
    /\ \E t \in Tools : \E a \in Args(t) :
         inv' = [inv EXCEPT ![p] = [a EXCEPT !.tool = t, !.pc = "ea_exists",
                                             !.file0 = file]]
    /\ UNCHANGED <<file, mem, playlists, fresh, saved, hist, album>>

\* The caller has its answer; the invocation is over.
Finish(p) ==
    /\ inv[p].pc = "done"
    /\ inv' = [inv EXCEPT ![p] = Idle]
    /\ UNCHANGED <<file, mem, playlists, fresh, saved, hist, album>>

\* ------------------------------------------------------------------------
\* ensure_authenticated
\* ------------------------------------------------------------------------

\* AfterCheck without the gate: a tool enters its body whatever the result.
AfterCheckNoGate(r, ok) ==
    IF r.tool = "login"
    THEN IF ok THEN Return([r EXCEPT !.authOk = TRUE])
         ELSE [r EXCEPT !.pc = "login_oauth"]
    ELSE [r EXCEPT !.authOk = ok, !.pc = "body"]

\* AfterCheck raising the catch-all failure in place of "Not authenticated".
AfterCheckWrongError(r, ok) ==
    IF r.tool = "login"
    THEN IF ok THEN Return([r EXCEPT !.authOk = TRUE])
         ELSE [r EXCEPT !.pc = "login_oauth"]
    ELSE IF ok THEN [r EXCEPT !.authOk = TRUE, !.pc = "body"]
         ELSE Raise(r, "OpFailed")

\* AfterCheck with a login that starts OAuth whatever the result.
AfterCheckLoginAlways(r, ok) ==
    IF r.tool = "login"
    THEN [r EXCEPT !.authOk = ok, !.pc = "login_oauth"]
    ELSE IF ok THEN [r EXCEPT !.authOk = TRUE, !.pc = "body"]
         ELSE Raise(r, "AuthRequired")

\* What the calling handler does with ensure_authenticated's result: login
\* returns at once on True and goes on to OAuth on False; every other tool
\* raises "Not authenticated" on False and enters its body on True.
AfterCheck(r, ok) ==
    IF r.tool = "login"
    THEN IF ok THEN Return([r EXCEPT !.authOk = TRUE])
         ELSE [r EXCEPT !.pc = "login_oauth"]
    ELSE IF ok THEN [r EXCEPT !.authOk = TRUE, !.pc = "body"]
         ELSE Raise(r, "AuthRequired")

\* Path(SESSION_FILE).unlink(): removes the file; every handle open on it
\* keeps writing to the removed file.
Orphaned(p) ==
    [q \in Procs |->
        IF q # p /\ inv[q].fh = "open"
        THEN [inv[q] EXCEPT !.fh = "orphan"] ELSE inv[q]]

\* if await anyio.Path(SESSION_FILE).exists()
EAExists(p) ==
    /\ inv[p].pc = "ea_exists"
    /\ inv' = [inv EXCEPT ![p] =
                 IF file.kind # "absent"
                 THEN [inv[p] EXCEPT !.pc = "ea_read", !.sawFile = TRUE]
                 ELSE [inv[p] EXCEPT !.pc = "ea_nofile"]]
    /\ UNCHANGED <<file, mem, playlists, fresh, saved, hist, album>>

\* open, read, json.loads and the three data[...]["data"] subscripts.
EARead(p) ==
    /\ inv[p].pc = "ea_read"
    /\ inv' = [inv EXCEPT ![p] =
                 IF file.kind = "bundle"
                 THEN [inv[p] EXCEPT !.pc = "ea_load", !.data = file.b]
                 ELSE [Failed(inv[p]) EXCEPT !.pc = "ea_except"]]
    /\ UNCHANGED <<file, mem, playlists, fresh, saved, hist, album>>

\* result = session.load_oauth_session(...); a falsy result returns False.
EALoad(p) ==
    /\ inv[p].pc = "ea_load"
    /\ \E ans \in {"true", "false", "fault"} : \E sid \in RemoteSessionIds :
         /\ mem' = LoadedSession(mem, inv[p].data, ans = "true", sid)
         /\ inv' = [inv EXCEPT ![p] =
                      LET r == [Site(inv[p]) EXCEPT !.heard.load = ans]
                      IN  CASE ans = "true" -> [r EXCEPT !.pc = "ea_check"]
                            [] ans = "false" -> AfterCheck(r, FALSE)
                            [] ans = "fault" ->
                                 [Failed(r) EXCEPT !.pc = "ea_except"]]
         /\ hist' = IF ans = "false"
                    THEN [hist EXCEPT !.invalidated = TRUE] ELSE hist
    /\ UNCHANGED <<file, playlists, fresh, saved, album>>

\* is_valid = session.check_login() after a load.
EACheck(p) ==
    /\ inv[p].pc = "ea_check"
    /\ \E ans \in CheckLoginAnswers(mem) :
         inv' = [inv EXCEPT ![p] =
                   LET r == [Site(inv[p]) EXCEPT !.heard.check = ans]
                   IN  CASE ans = "true" -> AfterCheck(r, TRUE)
                         [] ans = "false" -> [r EXCEPT !.pc = "ea_unlink"]
                         [] ans = "fault" ->
                              [Failed(r) EXCEPT !.pc = "ea_except",
                                                !.checkFault = TRUE]]
    /\ UNCHANGED <<file, mem, playlists, fresh, saved, hist, album>>

\* if not is_valid: unlink the file, inside the try; then return is_valid.
EAUnlink(p) ==
    /\ inv[p].pc = "ea_unlink"
    /\ IF file.kind # "absent"
       THEN /\ file' = FileAbsent
            /\ inv' = [Orphaned(p) EXCEPT ![p] = AfterCheck(inv[p], FALSE)]
            /\ hist' = [hist EXCEPT !.invalidated = TRUE]
       ELSE /\ file' = file
            /\ inv' = [inv EXCEPT ![p] =
                         [Failed(inv[p]) EXCEPT !.pc = "ea_except"]]
            /\ hist' = hist
    /\ UNCHANGED <<mem, playlists, fresh, saved, album>>

\* except Exception: unlink the file and return False; the unlink is not
\* guarded, so its own failure leaves ensure_authenticated as it is.
EAExcept(p) ==
    /\ inv[p].pc = "ea_except"
    /\ IF file.kind # "absent"
       THEN /\ file' = FileAbsent
            /\ inv' = [Orphaned(p) EXCEPT ![p] = AfterCheck(inv[p], FALSE)]
            /\ hist' = [hist EXCEPT !.invalidated = TRUE]
       ELSE /\ file' = file
            /\ inv' = [inv EXCEPT ![p] = Escape(inv[p])]
            /\ hist' = hist
    /\ UNCHANGED <<mem, playlists, fresh, saved, album>>

\* No file: return session.check_login(), outside any try.
EANoFile(p) ==
    /\ inv[p].pc = "ea_nofile"
    /\ \E ans \in CheckLoginAnswers(mem) :
         inv' = [inv EXCEPT ![p] =
                   LET r == [Site(inv[p]) EXCEPT !.heard.check = ans]
                   IN  CASE ans = "true" -> AfterCheck(r, TRUE)
                         [] ans = "false" -> AfterCheck(r, FALSE)
                         [] ans = "fault" ->
                              Escape([r EXCEPT !.checkFault = TRUE])]
    /\ UNCHANGED <<file, mem, playlists, fresh, saved, hist, album>>

EnsureAuthenticated(p) ==
    \/ EAExists(p) \/ EARead(p) \/ EALoad(p) \/ EACheck(p)
    \/ EAUnlink(p) \/ EAExcept(p) \/ EANoFile(p)

\* ------------------------------------------------------------------------
\* login
\* ------------------------------------------------------------------------

\* What the text of an exception caught by login's "except Exception" says.
FaultTexts == {"timeout", "other"}

\* login's "except Exception": with "too long" or "timeout" in the text the
\* message names the helper script, otherwise it is "Authentication error".
LoginFault(r, txt) ==
    Raise([r EXCEPT !.msgId = IF txt = "timeout" THEN "helper" ELSE "error"],
          "AuthFailed")

\* LoginOAuth behind a guard: no flow is started while another is in progress.
LoginOAuthSingleFlight(p) ==
    /\ inv[p].pc = "login_oauth"
    /\ \A q \in Procs \ {p} : inv[q].pc \notin {"login_browser", "login_wait"}
    /\ \/ inv' = [inv EXCEPT ![p] =
                    [Site(inv[p]) EXCEPT !.pc = "login_browser"]]
       \/ \E txt \in FaultTexts :
            inv' = [inv EXCEPT ![p] = LoginFault(Site(inv[p]), txt)]
    /\ UNCHANGED <<file, mem, playlists, fresh, saved, hist, album>>

\* session.login_oauth() starts the device flow.
LoginOAuth(p) ==
    /\ inv[p].pc = "login_oauth"
    /\ \/ inv' = [inv EXCEPT ![p] =
                    [Site(inv[p]) EXCEPT !.pc = "login_browser",
                                         !.heard.oauth = "ok"]]
       \/ \E txt \in FaultTexts :
            inv' = [inv EXCEPT ![p] =
                      LoginFault([Site(inv[p]) EXCEPT !.heard.oauth = "fault"],
                                 txt)]
    /\ UNCHANGED <<file, mem, playlists, fresh, saved, hist, album>>

\* webbrowser.open(auth_url); its failure is swallowed.
LoginBrowser(p) ==
    /\ inv[p].pc = "login_browser"
    /\ \E ans \in {"ok", "fault"} :
         inv' = [inv EXCEPT ![p] =
                   [(IF ans = "ok" THEN inv[p] ELSE Failed(inv[p]))
                       EXCEPT !.pc = "login_wait"]]
    /\ UNCHANGED <<file, mem, playlists, fresh, saved, hist, album>>

\* future.result(): the flow completes and the library fills the session,
\* or the wait raises (link expired, provider rejected).
LoginWait(p) ==
    /\ inv[p].pc = "login_wait"
    /\ \/ \E c \in OAuthCreds :
            /\ mem' = c
            /\ fresh' = FALSE
            /\ hist' = [hist EXCEPT !.invalidated = FALSE]
            /\ inv' = [inv EXCEPT ![p] =
                         [Site(inv[p]) EXCEPT !.pc = "login_check",
                                              !.heard.wait = "ok",
                                              !.heard.creds = c]]
       \/ /\ \E txt \in FaultTexts :
               inv' = [inv EXCEPT ![p] =
                         LoginFault([Site(inv[p]) EXCEPT
                                        !.heard.wait = "fault"], txt)]
          /\ UNCHANGED <<mem, fresh, hist>>
    /\ UNCHANGED <<file, playlists, saved, album>>

\* if session.check_login(): build session_data; else "Authentication failed
\* - please try again".
LoginCheck(p) ==
    /\ inv[p].pc = "login_check"
    /\ \E ans \in CheckLoginAnswers(mem) : \E txt \in FaultTexts :
         inv' = [inv EXCEPT ![p] =
                   LET r == [Site(inv[p]) EXCEPT !.heard.check2 = ans]
                   IN  CASE ans = "true" ->
                              [r EXCEPT !.pc = "login_open",
                                        !.data = SessionData(mem)]
                         [] ans = "false" ->
                              Raise([r EXCEPT !.msgId = "retry"], "AuthFailed")
                         [] ans = "fault" -> LoginFault(r, txt)]
    /\ UNCHANGED <<file, mem, playlists, fresh, saved, hist, album>>

\* anyio.open_file(SESSION_FILE, "w"): creates or truncates the file.
LoginOpen(p) ==
    /\ inv[p].pc = "login_open"
    /\ \/ /\ file' = FileOf("empty", NoCreds)
          /\ inv' = [inv EXCEPT ![p] =
                       [Site(inv[p]) EXCEPT !.pc = "login_write",
                                            !.fh = "open",
                                            !.heard.open = "ok"]]
       \/ /\ inv' = [inv EXCEPT ![p] =
                       LoginFault([Site(inv[p]) EXCEPT !.heard.open = "fault"],
                                  "other")]
          /\ UNCHANGED file
    /\ UNCHANGED <<mem, playlists, fresh, saved, hist, album>>

\* f.write(json.dumps(session_data)), then the success result; a failed write
\* is "Authentication error" and leaves the file as opened.
LoginWrite(p) ==
    /\ inv[p].pc = "login_write"
    /\ \/ /\ file' = IF inv[p].fh = "open"
                      THEN FileOf("bundle", inv[p].data) ELSE file
          /\ saved' = inv[p].data
          /\ inv' = [inv EXCEPT ![p] =
                       Return([Site(inv[p]) EXCEPT !.fh = "closed",
                                                   !.heard.write = "ok"])]
       \/ /\ inv' = [inv EXCEPT ![p] =
                       LoginFault([Site(inv[p]) EXCEPT
                                      !.fh = "closed",
                                      !.heard.write = "fault"], "other")]
          /\ UNCHANGED <<file, saved>>
    /\ UNCHANGED <<mem, playlists, fresh, hist, album>>

Login(p) ==
    \/ LoginOAuth(p) \/ LoginBrowser(p) \/ LoginWait(p)
    \/ LoginCheck(p) \/ LoginOpen(p) \/ LoginWrite(p)

\* ------------------------------------------------------------------------
\* Helpers of the tool bodies
\* ------------------------------------------------------------------------

\* The clamp without its floor: min(limit, cap).
ClampNoFloor(limit, cap) == Min(limit, cap)

\* limit = min(max(1, limit), cap)
Clamp(limit, cap) == Min(Max(1, limit), cap)

\* The cap a clamping tool applies.
CapOf(t) == IF t \in RadioTools THEN RadioCap ELSE SearchCap

\* Python's seq[:k]: the first k items, or all but the last -k when k < 0.
PySlice(seq, k) ==
    IF k >= 0 THEN SubSeq(seq, 1, Min(Len(seq), k))
    ELSE SubSeq(seq, 1, Max(Len(seq) + k, 0))

\* "seq[:limit] if limit else seq"
Limited(seq, limit) == IF limit # 0 THEN PySlice(seq, limit) ELSE seq

\* Python's int(s) on a str: surrounding whitespace is stripped, one sign is
\* allowed, then digits, with single underscores allowed between digits.
FirstNonSpace(s) ==
    IF \E i \in 1..Len(s) : s[i] # " "
    THEN CHOOSE i \in 1..Len(s) :
             s[i] # " " /\ \A j \in 1..(i - 1) : s[j] = " "
    ELSE Len(s) + 1

LastNonSpace(s) ==
    IF \E i \in 1..Len(s) : s[i] # " "
    THEN CHOOSE i \in 1..Len(s) :
             s[i] # " " /\ \A j \in (i + 1)..Len(s) : s[j] = " "
    ELSE 0

Strip(s) == SubSeq(s, FirstNonSpace(s), LastNonSpace(s))

Unsigned(s) ==
    LET t == Strip(s)
    IN  IF Len(t) > 0 /\ t[1] \in {"+", "-"} THEN Tail(t) ELSE t

\* int(s) does not raise ValueError.
IsInt(s) ==
    LET u == Unsigned(s)
    IN  /\ Len(u) > 0
        /\ u[1] \in Digits
        /\ u[Len(u)] \in Digits
        /\ \A i \in 1..Len(u) : u[i] \in Digits \cup {"_"}
        /\ \A i \in 1..(Len(u) - 1) : ~(u[i] = "_" /\ u[i + 1] = "_")

RECURSIVE DigitsValue(_, _)
DigitsValue(u, acc) ==
    IF u = <<>> THEN acc
    ELSE IF Head(u) = "_" THEN DigitsValue(Tail(u), acc)
    ELSE DigitsValue(Tail(u), 10 * acc + DigitVal(Head(u)))

\* The value of int(s), for an s that parses.
IntOf(s) ==
    LET t == Strip(s)
        v == DigitsValue(Unsigned(s), 0)
    IN  IF t[1] = "-" THEN 0 - v ELSE v

\* [int(tid) for tid in track_ids]
AllInt(ids) == \A i \in 1..Len(ids) : IsInt(ids[i])
IntsOf(ids) == [i \in 1..Len(ids) |-> IntOf(ids[i])]

\* One remote catalog/library call is issued by the invocation.
Called(r) == [Site(r) EXCEPT !.calls = r.calls + 1]

\* The limit, as clamped or as given, is handed to the remote or to a slice.
Used(r, l) == [r EXCEPT !.effSet = TRUE, !.eff = l]

\* How many items a remote listing asked for l items may return.
ListingSizes(l) == 0..(IF l >= 1 THEN Min(MaxRemoteList, l) ELSE MaxRemoteList)

\* The ids of the user's playlists, as session.user.playlists() lists them.
UserPlaylistIds == SelectSeq(<<"pl1">>, LAMBDA i : playlists[i].exists)

\* The tools whose result lists tracks or albums with an artist name
\* (get_album projects its one album with AlbumProjection).
ProjectsArtist(t) ==
    t \in {"search_tracks", "search_albums", "get_favorite_tracks",
           "get_favorite_albums", "get_playlist_tracks", "get_album_tracks",
           "get_similar_albums"} \cup RadioTools \cup ArtistListingTools

\* The artist of a listed item as the library gives it: absent, or a name.
UpstreamArtists == {Null, "a"}

\* The name of the artist a tool looked up by id.
OwnerName == "o"

\* "<item>.artist.name if <item>.artist else ...": the placeholder, or in
\* get_artist_albums and get_artist_top_tracks the looked-up artist's name.
ArtistName(t, up) ==
    IF up # Null THEN up
    ELSE IF t \in ArtistListingTools THEN OwnerName
    ELSE "Unknown Artist"

\* The result r lists n items; up is the upstream artist of the first.
Projected(r, n, up) ==
    IF n > 0 /\ ProjectsArtist(r.tool)
    THEN [r EXCEPT !.upArtist = up, !.artist = ArtistName(r.tool, up)]
    ELSE r

\* ------------------------------------------------------------------------
\* Tools without an id lookup
\* ------------------------------------------------------------------------

\* Search trying again when session.search raises.
SearchRetries(p) ==
    /\ inv[p].pc = "body"
    /\ inv[p].tool \in SearchTools
    /\ LET l == Clamp(inv[p].limit, SearchCap)
           r == Used(Called(inv[p]), l)
       IN  \/ \E n \in ListingSizes(l) : \E up \in UpstreamArtists :
                inv' = [inv EXCEPT ![p] =
                          Return(Projected([r EXCEPT !.count = n], n, up))]
           \/ /\ inv[p].calls < 2
              /\ inv' = [inv EXCEPT ![p] = Failed(r)]
           \/ /\ inv[p].calls >= 2
              /\ inv' = [inv EXCEPT ![p] = Raise(r, "OpFailed")]
    /\ UNCHANGED <<file, mem, playlists, fresh, saved, hist, album>>

\* search_tracks, search_albums, search_artists, search_playlists: clamp,
\* session.search(query, models, limit), project; any exception is
\* "... search failed".
Search(p) ==
    /\ inv[p].pc = "body"
    /\ inv[p].tool \in SearchTools
    /\ LET l == Clamp(inv[p].limit, SearchCap)
           r == Used(Called(inv[p]), l)
       IN  \/ \E n \in ListingSizes(l) : \E up \in UpstreamArtists :
                inv' = [inv EXCEPT ![p] =
                          Return(Projected([r EXCEPT !.count = n], n, up))]
           \/ inv' = [inv EXCEPT ![p] = Raise(r, "OpFailed")]
    /\ UNCHANGED <<file, mem, playlists, fresh, saved, hist, album>>

\* get_favorite_tracks, get_favorite_albums, get_favorite_artists:
\* session.user.favorites.<kind>(limit=limit) with the limit as given.
FavoritesList(p) ==
    /\ inv[p].pc = "body"
    /\ inv[p].tool \in FavListTools
    /\ LET r == Used(Called(inv[p]), inv[p].limit)
       IN  \/ \E n \in ListingSizes(inv[p].limit) :
              \E up \in UpstreamArtists :
                inv' = [inv EXCEPT ![p] =
                          Return(Projected([r EXCEPT !.count = n], n, up))]
           \/ inv' = [inv EXCEPT ![p] = Raise(r, "OpFailed")]
    /\ UNCHANGED <<file, mem, playlists, fresh, saved, hist, album>>

\* FavoriteChange without its "except ValueError" clause: a failed int()
\* falls to the catch-all.
FavoriteChangeNoValueError(p) ==
    /\ inv[p].pc = "body"
    /\ inv[p].tool \in FavModTools
    /\ IF ~IsInt(inv[p].sid)
       THEN inv' = [inv EXCEPT ![p] = Raise(inv[p], "OpFailed")]
       ELSE LET r == Called([inv[p] EXCEPT !.parsed = <<IntOf(inv[p].sid)>>])
            IN  \E ans \in {"ok", "fault"} :
                  inv' = [inv EXCEPT ![p] =
                            IF ans = "ok" THEN Return(r)
                            ELSE Raise(r, "OpFailed")]
    /\ UNCHANGED <<file, mem, playlists, fresh, saved, hist, album>>

\* add_track_to_favorites, remove_track_from_favorites,
\* remove_album_from_favorites: int(id), then the remote call; ValueError
\* (from either) is "Invalid ... ID format", anything else "Failed to ...".
FavoriteChange(p) ==
    /\ inv[p].pc = "body"
    /\ inv[p].tool \in FavModTools
    /\ IF ~IsInt(inv[p].sid)
       THEN inv' = [inv EXCEPT ![p] = Raise(inv[p], "InvalidId")]
       ELSE LET r == Called([inv[p] EXCEPT !.parsed = <<IntOf(inv[p].sid)>>])
            IN  \E ans \in {"ok", "ValueError", "fault"} :
                  inv' = [inv EXCEPT ![p] =
                            CASE ans = "ok" -> Return(r)
                              [] ans = "ValueError" -> Raise(r, "InvalidId")
                              [] ans = "fault" -> Raise(r, "OpFailed")]
    /\ UNCHANGED <<file, mem, playlists, fresh, saved, hist, album>>

\* get_user_playlists: session.user.playlists(), then
\* "all_playlists[:limit] if limit else all_playlists".
get_user_playlists(p) ==
    /\ inv[p].pc = "body"
    /\ inv[p].tool = "get_user_playlists"
    /\ LET r == Called(inv[p])
           u == IF inv[p].limit # 0 THEN Used(r, inv[p].limit) ELSE r
       IN  \/ inv' = [inv EXCEPT ![p] = Return(
                        [u EXCEPT !.count =
                            Len(Limited(UserPlaylistIds, inv[p].limit))])]
           \/ inv' = [inv EXCEPT ![p] = Raise(r, "OpFailed")]
    /\ UNCHANGED <<file, mem, playlists, fresh, saved, hist, album>>

\* create_playlist: session.user.create_playlist(name, description).
create_playlist(p) ==
    /\ inv[p].pc = "body"
    /\ inv[p].tool = "create_playlist"
    /\ LET r == Called(inv[p])
       IN  \/ \E i \in PlaylistIds :
                /\ ~playlists[i].exists
                /\ playlists' = [playlists EXCEPT
                                   ![i] = [exists |-> TRUE, tracks |-> <<>>]]
                /\ inv' = [inv EXCEPT ![p] = Return([r EXCEPT !.msgId = i])]
           \/ /\ inv' = [inv EXCEPT ![p] = Raise(r, "OpFailed")]
              /\ UNCHANGED playlists
    /\ UNCHANGED <<file, mem, fresh, saved, hist, album>>

\* ------------------------------------------------------------------------
\* Tools that look an entity up by id
\* ------------------------------------------------------------------------

\* Python truthiness of an optional list (None and [] alike) and of an
\* optional string (None and "" alike).
Truthy(seq) == Len(seq) > 0
TruthyStr(x) == x # Null /\ x # ""

\* ParamError without the "not both" check of remove_tracks_from_playlist.
ParamErrorNeitherOnly(r) ==
    IF r.tool = "remove_tracks_from_playlist"
    THEN IF ~Truthy(r.track_ids) /\ ~Truthy(r.indices) THEN "neither"
         ELSE "none"
    ELSE IF r.tool = "update_playlist"
    THEN IF ~TruthyStr(r.name) /\ r.description = Null THEN "nothing"
         ELSE "none"
    ELSE "none"

\* The parameter checks made before the try block: remove_tracks_from_playlist
\* wants exactly one of track_ids and indices, update_playlist a name or a
\* description.  The answer names the message raised, "none" when the
\* parameters pass.
ParamError(r) ==
    IF r.tool = "remove_tracks_from_playlist"
    THEN IF ~Truthy(r.track_ids) /\ ~Truthy(r.indices) THEN "neither"
         ELSE IF Truthy(r.track_ids) /\ Truthy(r.indices) THEN "both"
         ELSE "none"
    ELSE IF r.tool = "update_playlist"
    THEN IF ~TruthyStr(r.name) /\ r.description = Null THEN "nothing"
         ELSE "none"
    ELSE "none"

\* The name and description a playlist looked up may have.
PlaylistMetas ==
    {[name |-> "n0", description |-> "d0"], [name |-> "n0", description |-> ""]}

\* What the lookup shows of the entity, as far as the tool uses it.
MetasSeen(t) == IF t = "update_playlist" THEN PlaylistMetas ELSE {NoMeta}

\* playlist.edit called with the name and description as the caller gave them.
EditArgsAsGiven(r) == [name |-> r.name, description |-> r.description]

\* The arguments of playlist.edit: "if name: edit(name, description)
\* elif description is not None: edit(playlist.name, description)".
EditArgs(r) ==
    IF TruthyStr(r.name)
    THEN [name |-> r.name, description |-> r.description]
    ELSE [name |-> r.cur.name, description |-> r.description]

\* What session.playlist / album / artist / track(id) can answer: the object,
\* a falsy value for an absent entity, or an exception.
LookupAnswers(r) ==
    IF r.tool \in PlaylistLookupTools
    THEN IF playlists[r.id].exists THEN {"found", "fault"}
         ELSE {"none", "fault"}
    ELSE {"found", "none", "fault"}

\* raise ToolError(f"... with ID '{id}' not found")
NotFound(r) == Raise([r EXCEPT !.msgId = r.id, !.absentAt = r.calls], "NotFound")

\* The tools that clamp their limit at the head of the try block, before the
\* lookup.
ClampsBeforeLookup(t) ==
    t \in RadioTools \cup ArtistListingTools \cup SimilarTools

\* The first part of every id-addressed tool: parameter checks, the clamp,
\* then the lookup and "if not <entity>: raise ... not found".  get_album
\* has no further remote call: it projects the album and returns.
Lookup(p) ==
    /\ inv[p].pc = "body"
    /\ inv[p].tool \in LookupTools
    /\ IF ParamError(inv[p]) # "none"
       THEN inv' = [inv EXCEPT ![p] =
                      Raise([inv[p] EXCEPT !.msgId = ParamError(inv[p])],
                            "BadRequest")]
       ELSE LET c == IF ClampsBeforeLookup(inv[p].tool)
                     THEN [inv[p] EXCEPT
                             !.eff = Clamp(inv[p].limit, CapOf(inv[p].tool))]
                     ELSE inv[p]
                r == Called(c)
            IN  \E ans \in LookupAnswers(r) : \E m \in MetasSeen(r.tool) :
                  inv' = [inv EXCEPT ![p] =
                     CASE ans = "none" -> NotFound(r)
                       [] ans = "fault" -> Raise(r, "OpFailed")
                       [] ans = "found" ->
                            IF r.tool = "get_album"
                            THEN Return([r EXCEPT
                                    !.found = TRUE,
                                    !.ret = <<AlbumProjection(album)>>])
                            ELSE [r EXCEPT !.found = TRUE, !.pc = "second",
                                           !.cur = m]]
    /\ UNCHANGED <<file, mem, playlists, fresh, saved, hist, album>>

\* get_album, with an album whose shape the projection cannot read.
AlbumProjectionFault(p) ==
    /\ inv[p].pc = "body"
    /\ inv[p].tool = "get_album"
    /\ inv' = [inv EXCEPT ![p] =
                 Raise([Called(inv[p]) EXCEPT !.found = TRUE], "OpFailed")]
    /\ UNCHANGED <<file, mem, playlists, fresh, saved, hist, album>>

\* get_playlist_tracks: playlist.tracks(), then
\* "all_tracks[:limit] if limit else all_tracks".
get_playlist_tracks(p) ==
    /\ inv[p].pc = "second"
    /\ inv[p].tool = "get_playlist_tracks"
    /\ LET r == Called(inv[p])
           u == IF inv[p].limit # 0 THEN Used(r, inv[p].limit) ELSE r
       IN  \/ /\ playlists[r.id].exists
              /\ \E up \in UpstreamArtists :
                   inv' = [inv EXCEPT ![p] = Return(Projected(
                             [u EXCEPT
                                !.ret = Limited(playlists[r.id].tracks, r.limit),
                                !.count =
                                  Len(Limited(playlists[r.id].tracks, r.limit))],
                             Len(Limited(playlists[r.id].tracks, r.limit)),
                             up))]
           \/ inv' = [inv EXCEPT ![p] = Raise(r, "OpFailed")]
    /\ UNCHANGED <<file, mem, playlists, fresh, saved, hist, album>>

\* playlist.add(ids) with the reversed order of the ids.
AddedReversed(old, ids) ==
    old \o [i \in 1..Len(ids) |-> ids[Len(ids) + 1 - i]]

\* playlist.add(ids): the remote appends the tracks in the order given.
Added(old, ids) == old \o ids

\* add_tracks_to_playlist: [int(tid) for tid in track_ids], playlist.add;
\* tracks_added is len(track_ids).
add_tracks_to_playlist(p) ==
    /\ inv[p].pc = "second"
    /\ inv[p].tool = "add_tracks_to_playlist"
    /\ IF ~AllInt(inv[p].track_ids)
       THEN /\ inv' = [inv EXCEPT ![p] = Raise(inv[p], "InvalidId")]
            /\ UNCHANGED playlists
       ELSE LET ints == IntsOf(inv[p].track_ids)
                r == Called([inv[p] EXCEPT !.parsed = ints])
                new == Added(playlists[r.id].tracks, ints)
            IN  \/ /\ playlists[r.id].exists
                   /\ Len(new) <= MaxTracks
                   /\ playlists' = [playlists EXCEPT ![r.id].tracks = new]
                   /\ inv' = [inv EXCEPT ![p] =
                                Return([r EXCEPT
                                   !.count = Len(r.track_ids),
                                   !.delta = Len(new)
                                       - Len(playlists[r.id].tracks)])]
                \/ /\ \E k \in {"InvalidId", "OpFailed"} :
                        inv' = [inv EXCEPT ![p] = Raise(r, k)]
                   /\ UNCHANGED playlists
    /\ UNCHANGED <<file, mem, fresh, saved, hist, album>>

RECURSIVE DropIndices(_, _, _)
\* seq without the items at the 0-based positions in S; i is Head's position.
DropIndices(seq, S, i) ==
    IF seq = <<>> THEN <<>>
    ELSE (IF i \in S THEN <<>> ELSE <<Head(seq)>>)
             \o DropIndices(Tail(seq), S, i + 1)

Range(seq) == {seq[i] : i \in 1..Len(seq)}

\* remove_tracks_from_playlist: playlist.remove_by_indices(indices), or
\* int() each id and playlist.remove_by_id; tracks_removed is the length of
\* the list given.
remove_tracks_from_playlist(p) ==
    /\ inv[p].pc = "second"
    /\ inv[p].tool = "remove_tracks_from_playlist"
    /\ IF ~Truthy(inv[p].indices) /\ ~AllInt(inv[p].track_ids)
       THEN /\ inv' = [inv EXCEPT ![p] = Raise(inv[p], "InvalidId")]
            /\ UNCHANGED playlists
       ELSE LET byIndex == Truthy(inv[p].indices)
                ints == IF byIndex THEN <<>> ELSE IntsOf(inv[p].track_ids)
                r == Called([inv[p] EXCEPT !.parsed = ints])
                old == playlists[r.id].tracks
                new == IF byIndex
                       THEN DropIndices(old, Range(r.indices), 0)
                       ELSE SelectSeq(old, LAMBDA t : t \notin Range(ints))
                n == IF byIndex THEN Len(r.indices) ELSE Len(r.track_ids)
            IN  \/ /\ playlists[r.id].exists
                   /\ playlists' = [playlists EXCEPT ![r.id].tracks = new]
                   /\ inv' = [inv EXCEPT ![p] =
                                Return([r EXCEPT !.count = n,
                                                 !.delta = Len(old) - Len(new)])]
                \/ /\ \E k \in {"InvalidId", "OpFailed"} :
                        inv' = [inv EXCEPT ![p] = Raise(r, k)]
                   /\ UNCHANGED playlists
    /\ UNCHANGED <<file, mem, fresh, saved, hist, album>>

\* update_playlist: playlist.edit(name, description), or with the current
\* name when only a description is given.
PlaylistEdit(p) ==
    /\ inv[p].pc = "second"
    /\ inv[p].tool = "update_playlist"
    /\ LET r == [Called(inv[p]) EXCEPT !.sent = EditArgs(inv[p])]
       IN  \/ /\ playlists[r.id].exists
              /\ inv' = [inv EXCEPT ![p] = [r EXCEPT !.pc = "refetch"]]
           \/ inv' = [inv EXCEPT ![p] = Raise(r, "OpFailed")]
    /\ UNCHANGED <<file, mem, playlists, fresh, saved, hist, album>>

\* update_playlist: updated_playlist = session.playlist(playlist_id), read
\* without a check: on a falsy answer updated_playlist.id raises
\* AttributeError, which is "Failed to update playlist".
PlaylistRefetch(p) ==
    /\ inv[p].pc = "refetch"
    /\ LET r == Called(inv[p])
       IN  \E ans \in LookupAnswers(r) :
             inv' = [inv EXCEPT ![p] =
                CASE ans = "found" -> Return(r)
                  [] ans = "fault" -> Raise(r, "OpFailed")
                  [] ans = "none" ->
                       Raise([r EXCEPT !.absentAt = r.calls,
                                       !.fieldRead = TRUE], "OpFailed")]
    /\ UNCHANGED <<file, mem, playlists, fresh, saved, hist, album>>

\* delete_playlist: playlist.delete().
delete_playlist(p) ==
    /\ inv[p].pc = "second"
    /\ inv[p].tool = "delete_playlist"
    /\ LET r == Called(inv[p])
       IN  \/ /\ playlists[r.id].exists
              /\ playlists' = [playlists EXCEPT ![r.id] = NoPlaylist]
              /\ inv' = [inv EXCEPT ![p] = Return(r)]
           \/ /\ inv' = [inv EXCEPT ![p] = Raise(r, "OpFailed")]
              /\ UNCHANGED playlists
    /\ UNCHANGED <<file, mem, fresh, saved, hist, album>>

\* get_album_tracks: album.tracks(), projected.
get_album_tracks(p) ==
    /\ inv[p].pc = "second"
    /\ inv[p].tool = "get_album_tracks"
    /\ LET r == Called(inv[p])
       IN  \/ \E n \in 0..MaxRemoteList : \E up \in UpstreamArtists :
                inv' = [inv EXCEPT ![p] =
                          Return(Projected([r EXCEPT !.count = n], n, up))]
           \/ inv' = [inv EXCEPT ![p] = Raise(r, "OpFailed")]
    /\ UNCHANGED <<file, mem, playlists, fresh, saved, hist, album>>

\* The artist object session.artist answers with.
ArtistId == 5

\* The Artist model get_artist builds, with the bio as given.
ArtistProjection(bio) ==
    [id |-> StrOfNat(ArtistId),
     name |-> OwnerName,
     url |-> <<"h", "t", "t", "p", "s", ":", "/", "/", "t", "i", "d", "a",
               "l", ".", "c", "o", "m", "/", "b", "r", "o", "w", "s", "e",
               "/", "a", "r", "t", "i", "s", "t", "/">> \o StrOfNat(ArtistId),
     bio |-> bio]

\* get_artist with no try of its own around artist.get_bio().
get_artistBioRaises(p) ==
    /\ inv[p].pc = "second"
    /\ inv[p].tool = "get_artist"
    /\ LET r == Called(inv[p])
       IN  \E ans \in {"text", "none", "fault"} :
             inv' = [inv EXCEPT ![p] =
                IF ans = "fault"
                THEN Raise([r EXCEPT !.bioFault = TRUE], "OpFailed")
                ELSE Return([r EXCEPT !.ret = <<ArtistProjection(
                                IF ans = "text" THEN "text" ELSE Null)>>])]
    /\ UNCHANGED <<file, mem, playlists, fresh, saved, hist, album>>

\* get_artist: bio = None, then artist.get_bio() in its own try, whose
\* failure is passed over; the result carries bio as it then is.
get_artist(p) ==
    /\ inv[p].pc = "second"
    /\ inv[p].tool = "get_artist"
    /\ LET r == Called(inv[p])
       IN  \E ans \in {"text", "none", "fault"} :
             inv' = [inv EXCEPT ![p] =
                IF ans = "fault"
                THEN Return([Failed(r) EXCEPT
                                !.bioFault = TRUE,
                                !.ret = <<ArtistProjection(Null)>>])
                ELSE Return([r EXCEPT !.ret = <<ArtistProjection(
                                IF ans = "text" THEN "text" ELSE Null)>>])]
    /\ UNCHANGED <<file, mem, playlists, fresh, saved, hist, album>>

\* get_track_radio, get_artist_radio, get_artist_albums,
\* get_artist_top_tracks: the listing call with limit=limit, as clamped.
ListingByLimit(p) ==
    /\ inv[p].pc = "second"
    /\ inv[p].tool \in RadioTools \cup ArtistListingTools
    /\ LET r == Used(Called(inv[p]), inv[p].eff)
       IN  \/ \E n \in ListingSizes(r.eff) : \E up \in UpstreamArtists :
                inv' = [inv EXCEPT ![p] =
                          Return(Projected([r EXCEPT !.count = n], n, up))]
           \/ inv' = [inv EXCEPT ![p] = Raise(r, "OpFailed")]
    /\ UNCHANGED <<file, mem, playlists, fresh, saved, hist, album>>

\* get_similar_artists, get_similar_albums: the whole list is fetched, then
\* "similar[:limit] if similar else []" with the clamped limit.
Similar(p) ==
    /\ inv[p].pc = "second"
    /\ inv[p].tool \in SimilarTools
    /\ LET r == Called(inv[p])
       IN  \/ \E n \in 0..MaxRemoteList : \E up \in UpstreamArtists :
                inv' = [inv EXCEPT ![p] =
                          IF n > 0
                          THEN Return(Projected(
                                 [Used(r, r.eff) EXCEPT
                                    !.count = Len(PySlice(
                                       [k \in 1..n |-> k], r.eff))],
                                 Len(PySlice([k \in 1..n |-> k], r.eff)), up))
                          ELSE Return(r)]
           \/ inv' = [inv EXCEPT ![p] = Raise(r, "OpFailed")]
    /\ UNCHANGED <<file, mem, playlists, fresh, saved, hist, album>>

\* The body of a catalog tool, entered once ensure_authenticated returned True.
Body(p) ==
    \/ Search(p) \/ FavoritesList(p) \/ FavoriteChange(p)
    \/ get_user_playlists(p) \/ create_playlist(p)
    \/ Lookup(p) \/ AlbumProjectionFault(p)
    \/ get_playlist_tracks(p) \/ add_tracks_to_playlist(p)
    \/ remove_tracks_from_playlist(p)
    \/ PlaylistEdit(p) \/ PlaylistRefetch(p) \/ delete_playlist(p)
    \/ get_album_tracks(p) \/ get_artist(p)
    \/ ListingByLimit(p) \/ Similar(p)

\* ------------------------------------------------------------------------
\* The remote service's other clients
\* ------------------------------------------------------------------------

\* The user deletes a playlist from another TIDAL client.
OtherClientDeletes ==
    /\ \E i \in PlaylistIds :
         /\ playlists[i].exists
         /\ playlists' = [playlists EXCEPT ![i] = NoPlaylist]
    /\ hist' = [hist EXCEPT !.stage = 0, !.pl = Null, !.ids = <<>>]
    /\ UNCHANGED <<file, mem, inv, fresh, saved, album>>

\* ------------------------------------------------------------------------
\* Properties
\* ------------------------------------------------------------------------

\* C1: in every tool other than login, a catalog/library remote call has been
\* issued only if ensure_authenticated returned True earlier in the same
\* invocation.
C1_AuthBeforeRemoteCall ==
    \A p \in Procs :
        (inv[p].tool \in CatalogTools /\ inv[p].calls > 0) => inv[p].authOk

\* create_playlist has issued its remote call, after a successful check.
C1_Witness ==
    \E p \in Procs :
        /\ inv[p].tool = "create_playlist"
        /\ inv[p].calls = 1
        /\ inv[p].authOk

\* C2: while the process has had no session file and no completed OAuth flow,
\* every tool other than login issues no remote call and ends with
\* "Not authenticated".
C2_FreshProcessNotAuthenticated ==
    \A p \in Procs :
        (fresh /\ inv[p].tool \in CatalogTools) =>
            /\ inv[p].calls = 0
            /\ (inv[p].pc = "done" => inv[p].outcome = "AuthRequired")

\* search_tracks has ended with "Not authenticated" in such a process.
C2_Witness ==
    \E p \in Procs :
        /\ fresh
        /\ inv[p].tool = "search_tracks"
        /\ inv[p].pc = "done"
        /\ inv[p].outcome = "AuthRequired"
        /\ inv[p].calls = 0

\* C3: every tool invocation ends with its typed result or with a ToolError;
\* no other exception leaves a tool.
C3_OnlyToolErrorEscapes ==
    \A p \in Procs : inv[p].pc = "done" => inv[p].outcome # "raw"

\* ensure_authenticated has just returned False to its caller.
ReturnedFalse(r) ==
    /\ ~r.authOk
    /\ \/ r.pc = "login_oauth"
       \/ r.pc = "done" /\ r.outcome = "AuthRequired"

\* C4: when ensure_authenticated found a session file and returns False, the
\* file has been deleted.
C4_RejectedFileDeleted ==
    \A p \in Procs :
        (inv[p].sawFile /\ ReturnedFalse(inv[p])) => file.kind = "absent"

\* C5: once ensure_authenticated has loaded the file login saved, the session
\* holds, for each of the five fields, the value of the saved bundle.
C5_BundleRoundTrip ==
    \A p \in Procs :
        (inv[p].pc = "ea_check" /\ saved # NoCreds /\ inv[p].data = saved) =>
            /\ mem.token_type = saved.token_type
            /\ mem.session_id = saved.session_id
            /\ mem.access_token = saved.access_token
            /\ mem.refresh_token = saved.refresh_token
            /\ mem.is_pkce = saved.is_pkce

\* The tools C6 lists, and the cap it gives each.
ClampingTools ==
    SearchTools \cup ArtistListingTools \cup SimilarTools \cup RadioTools

ClaimedCap(t) ==
    IF t \in {"get_track_radio", "get_artist_radio"} THEN 100 ELSE 50

\* C6: in the clamping tools the limit handed to the remote call or to the
\* slice is min(max(1, limit), cap): 1 below the range, the cap above it, the
\* input inside it.
C6_ClampedLimit ==
    \A p \in Procs :
        (inv[p].tool \in ClampingTools /\ inv[p].effSet) =>
            LET l == inv[p].limit
                cap == ClaimedCap(inv[p].tool)
            IN  /\ inv[p].eff \in 1..cap
                /\ (l < 1 => inv[p].eff = 1)
                /\ (l > cap => inv[p].eff = cap)
                /\ (l \in 1..cap => inv[p].eff = l)

\* get_track_radio asked for 1000 tracks has used 100.
C6_Witness ==
    \E p \in Procs :
        /\ inv[p].tool = "get_track_radio"
        /\ inv[p].limit = 1000
        /\ inv[p].effSet
        /\ inv[p].eff = 100

\* C7: in every tool that takes a limit, the limit handed to the remote call
\* or to the slice is at least 1 and at most the tool's cap.
C7_EveryLimitClamped ==
    \A p \in Procs :
        (inv[p].tool \in LimitTools /\ inv[p].effSet) =>
            /\ inv[p].eff >= 1
            /\ (inv[p].tool \in ClampingTools =>
                    inv[p].eff <= ClaimedCap(inv[p].tool))

\* C8: remove_tracks_from_playlist on an authenticated session with both lists
\* populated, or with neither, issues no remote call and ends with the
\* Bad-Request message of the constraint violated.
C8_RemoveNeedsExactlyOneList ==
    \A p \in Procs :
        LET r == inv[p]
            both == Len(r.track_ids) > 0 /\ Len(r.indices) > 0
            neither == Len(r.track_ids) = 0 /\ Len(r.indices) = 0
        IN  (r.tool = "remove_tracks_from_playlist" /\ r.authOk
                /\ (both \/ neither)) =>
                /\ r.calls = 0
                /\ r.pc \in {"body", "done"}
                /\ (r.pc = "done" =>
                        /\ r.outcome = "BadRequest"
                        /\ r.msgId = IF both THEN "both" ELSE "neither")

\* The call with both lists populated has been rejected.
C8_Witness ==
    \E p \in Procs :
        /\ inv[p].tool = "remove_tracks_from_playlist"
        /\ inv[p].authOk
        /\ Len(inv[p].track_ids) > 0
        /\ Len(inv[p].indices) > 0
        /\ inv[p].pc = "done"
        /\ inv[p].outcome = "BadRequest"

\* The identifier strings of the model that Python's int() accepts.
IntegerStrings ==
    {S111, S222, <<"-", "5">>, <<" ", "7">>, <<"1", "_", "1">>}

\* C9: add_track_to_favorites on an authenticated session with a track_id
\* that is not an integer issues no remote call and ends with
\* "Invalid track ID format".
C9_BadTrackIdIsInvalidId ==
    \A p \in Procs :
        (inv[p].tool = "add_track_to_favorites" /\ inv[p].authOk
            /\ inv[p].sid \notin IntegerStrings) =>
            /\ inv[p].calls = 0
            /\ (inv[p].pc = "done" => inv[p].outcome = "InvalidId")

\* add_track_to_favorites("abc") has ended with "Invalid track ID format".
C9_Witness ==
    \E p \in Procs :
        /\ inv[p].tool = "add_track_to_favorites"
        /\ inv[p].authOk
        /\ inv[p].sid = Sabc
        /\ inv[p].pc = "done"
        /\ inv[p].outcome = "InvalidId"

\* C10: when a lookup by id answers that the entity is absent, the call ends
\* with Not-Found carrying the id, reads no field of the absent entity and
\* issues no further remote call.
C10_AbsentIsNotFound ==
    \A p \in Procs :
        inv[p].absentAt >= 0 =>
            /\ inv[p].pc = "done"
            /\ inv[p].outcome = "NotFound"
            /\ inv[p].msgId = inv[p].id
            /\ ~inv[p].fieldRead
            /\ inv[p].calls = inv[p].absentAt

\* The catalog's album changes (a re-release, a corrected title).
CatalogChanges ==
    /\ \E a \in Albums \ {album} : album' = a
    /\ hist' = [hist EXCEPT !.last = <<>>,
                            !.stale = \E p \in Procs : inv[p].pc # "idle"]
    /\ UNCHANGED <<file, mem, playlists, inv, fresh, saved>>

\* ------------------------------------------------------------------------
\* A caller that remembers what it was answered
\* ------------------------------------------------------------------------

ClientTools ==
    {"login", "create_playlist", "add_tracks_to_playlist",
     "get_playlist_tracks", "delete_playlist", "get_album"}

StartClient(p) ==
    /\ p = "p1"
    /\ \A q \in Procs : inv[q].pc = "idle"
    /\ \E t \in ClientTools : \E a \in Args(t) :
         inv' = [inv EXCEPT ![p] = [a EXCEPT !.tool = t, !.pc = "ea_exists",
                                             !.file0 = file]]
    /\ UNCHANGED <<file, mem, playlists, fresh, saved, hist, album>>

\* hist after the invocation r has ended.
Remembered(r) ==
    LET h ==
          CASE r.tool = "create_playlist" ->
                 IF r.outcome = "result"
                 THEN [hist EXCEPT !.stage = 1, !.pl = r.msgId, !.ids = <<>>]
                 ELSE [hist EXCEPT !.stage = 0, !.pl = Null, !.ids = <<>>]
            [] r.tool = "add_tracks_to_playlist" ->
                 IF /\ r.outcome = "result" /\ hist.stage = 1
                    /\ r.id = hist.pl /\ Len(r.track_ids) = 2
                 THEN [hist EXCEPT !.stage = 2, !.ids = r.track_ids]
                 ELSE IF r.calls < 2 THEN hist
                 ELSE [hist EXCEPT !.stage = 0, !.pl = Null, !.ids = <<>>]
            [] r.tool = "delete_playlist" ->
                 IF r.calls < 2 THEN hist
                 ELSE [hist EXCEPT !.stage = 0, !.pl = Null, !.ids = <<>>]
            [] r.tool = "get_album" ->
                 IF r.outcome = "result" /\ ~hist.stale
                 THEN [hist EXCEPT !.last = r.ret] ELSE hist
            [] OTHER -> hist
    IN  [h EXCEPT !.stale = FALSE]

\* The caller has its answer and notes it.
FinishClient(p) ==
    /\ inv[p].pc = "done"
    /\ inv' = [inv EXCEPT ![p] = Idle]
    /\ hist' = Remembered(inv[p])
    /\ UNCHANGED <<file, mem, playlists, fresh, saved, album>>

InitClient ==
    /\ file \in {FileAbsent, FileOf("corrupt", NoCreds),
                 FileOf("nokey", NoCreds), FileOf("bundle", OldBundle)}
    /\ mem = NoCreds
    /\ playlists \in
         {[i \in PlaylistIds |-> NoPlaylist],
          [i \in PlaylistIds |-> [exists |-> TRUE, tracks |-> <<111>>]]}
    /\ inv = [p \in Procs |-> Idle]
    /\ fresh = (file.kind = "absent")
    /\ saved = NoCreds
    /\ hist = NoHist
    /\ album \in Albums

NextClient ==
    \/ \E p \in Procs :
          \/ StartClient(p) \/ FinishClient(p)
          \/ EnsureAuthenticated(p) \/ Login(p)
          \/ create_playlist(p) \/ Lookup(p) \/ AlbumProjectionFault(p)
          \/ get_playlist_tracks(p) \/ add_tracks_to_playlist(p)
          \/ delete_playlist(p)
    \/ OtherClientDeletes
    \/ CatalogChanges

SpecClient == InitClient /\ [][NextClient]_vars

\* ------------------------------------------------------------------------
\* The standalone script authenticate.py, and one login of a new server
\* ------------------------------------------------------------------------

\* main() up to "Start OAuth flow": the file it leaves, and whether it has
\* returned 0 ("Already authenticated").  f0 is the file it finds and a the
\* library's answers.  The file is unlinked in the except clause only.
ScriptLoad(f0, a) ==
    CASE f0.kind = "absent" -> [file |-> f0, returned |-> FALSE]
      [] f0.kind \notin {"absent", "bundle"} ->
           [file |-> FileAbsent, returned |-> FALSE]
      [] f0.kind = "bundle" ->
           CASE a.load = "fault" -> [file |-> FileAbsent, returned |-> FALSE]
             [] a.load = "true" /\ a.check = "fault" ->
                  [file |-> FileAbsent, returned |-> FALSE]
             [] a.load = "true" /\ a.check = "true" ->
                  [file |-> f0, returned |-> TRUE]
             [] OTHER -> [file |-> f0, returned |-> FALSE]

\* The session file when main() has ended (returned 0 or 1, or died of an
\* exception it does not catch).
ScriptFile(f0, a) ==
    LET s1 == ScriptLoad(f0, a)
    IN  IF s1.returned THEN s1.file
        ELSE IF a.oauth # "ok" \/ a.wait # "ok" \/ a.check2 # "true"
        THEN s1.file
        ELSE IF a.open # "ok" THEN s1.file
        ELSE IF a.write # "ok" THEN FileOf("empty", NoCreds)
        ELSE FileOf("bundle", SessionData(a.creds))

\* login is called once in a server process just started.
StartLogin(p) ==
    /\ p = "p1"
    /\ inv[p].pc = "idle"
    /\ inv' = [inv EXCEPT ![p] = [Idle EXCEPT !.tool = "login",
                                              !.pc = "ea_exists",
                                              !.file0 = file]]
    /\ UNCHANGED <<file, mem, playlists, fresh, saved, hist, album>>

NextLogin ==
    \E p \in Procs : StartLogin(p) \/ EnsureAuthenticated(p) \/ Login(p)

SpecLogin == Init /\ [][NextLogin]_vars

\* ------------------------------------------------------------------------
\* Concurrent callers
\* ------------------------------------------------------------------------

\* The tools called concurrently: login and two read-only tools.
ConcTools == {"login", "get_album", "get_artist"}

\* A caller invokes a tool whatever the other caller is doing; each caller
\* makes one call.
StartConc(p) ==
    /\ inv[p].pc = "idle"
    /\ \E t \in ConcTools : \E a \in Args(t) :
         inv' = [inv EXCEPT ![p] = [a EXCEPT !.tool = t, !.pc = "ea_exists",
                                             !.file0 = file]]
    /\ UNCHANGED <<file, mem, playlists, fresh, saved, hist, album>>

NextConc ==
    \E p \in Procs :
        \/ StartConc(p)
        \/ EnsureAuthenticated(p) \/ Login(p)
        \/ Lookup(p) \/ AlbumProjectionFault(p) \/ get_artist(p)

SpecConc == Init /\ [][NextConc]_vars

\* ------------------------------------------------------------------------
\* Properties of the later claims
\* ------------------------------------------------------------------------

\* C11: when session.check_login() faults inside ensure_authenticated, with
\* or without a session file, ensure_authenticated returns False: it does not
\* return True and no exception leaves it.
C11_CheckFaultReturnsFalse ==
    \A p \in Procs :
        inv[p].checkFault => (~inv[p].authOk /\ inv[p].outcome # "raw")

\* C12: a login whose OAuth flow did not complete (the wait raised, or the
\* login check after the wait was false or raised) ends with
\* Authentication-Failed carrying the message that names the helper script,
\* and has not opened the session file for writing.
C12_FailedLoginNamesHelper ==
    \A p \in Procs :
        LET r == inv[p]
        IN  (/\ r.tool = "login" /\ r.pc = "done" /\ r.outcome # "result"
             /\ Len(r.sites) > 0
             /\ r.sites[Len(r.sites)] \in {"login_wait", "login_check"}) =>
                /\ r.outcome = "AuthFailed"
                /\ r.msgId = "helper"
                /\ "login_open" \notin Range(r.sites)

\* C13: when login has returned success, the session file exists and holds
\* the tokens of the in-memory session.
C13_LoginSuccessHasFile ==
    \A p \in Procs :
        (inv[p].tool = "login" /\ inv[p].pc = "done"
            /\ inv[p].outcome = "result") =>
            /\ file.kind = "bundle"
            /\ file.b.access_token = mem.access_token
            /\ file.b.refresh_token = mem.refresh_token

\* C14: from the moment an operation found the persisted session invalid
\* until an OAuth flow completes, the session file is gone and every tool
\* other than login issues no remote call and ends with "Not authenticated".
C14_InvalidatedStaysUnauthenticated ==
    hist.invalidated =>
        /\ file.kind = "absent"
        /\ \A p \in Procs :
              inv[p].tool \in CatalogTools =>
                  /\ inv[p].calls = 0
                  /\ (inv[p].pc = "done" => inv[p].outcome = "AuthRequired")

\* The tools that parse identifiers or check their parameters.
ValidatingTools ==
    FavModTools \cup {"add_tracks_to_playlist", "remove_tracks_from_playlist",
                      "update_playlist"}

\* The identifiers the invocation was given do not all parse as integers.
BadIdentifiers(r) ==
    IF r.tool \in FavModTools THEN r.sid \notin IntegerStrings
    ELSE \E i \in 1..Len(r.track_ids) : r.track_ids[i] \notin IntegerStrings

\* C15: in the six validating tools, a call that ends with Bad-Request, or
\* with Invalid-Identifier for identifiers that do not parse, has issued no
\* remote call.
C15_ValidationBeforeRemoteCall ==
    \A p \in Procs :
        LET r == inv[p]
        IN  (/\ r.tool \in ValidatingTools /\ r.pc = "done"
             /\ \/ r.outcome = "BadRequest"
                \/ r.outcome = "InvalidId" /\ BadIdentifiers(r)) =>
                r.calls = 0

\* The read-only tools among those called concurrently.
ReadOnlyTools == {"get_album", "get_artist"}

\* C16: when every call made is a read-only call, a call in which the login
\* check did not fault (the one way a call made alone ends with a raw
\* exception) does not end with a raw exception.
C16_ConcurrentReadsSafe ==
    (\A q \in Procs : inv[q].tool \in ReadOnlyTools \cup {"none"}) =>
        \A p \in Procs :
            (inv[p].pc = "done" /\ ~inv[p].checkFault) =>
                inv[p].outcome # "raw"

\* C17: nothing makes a login call that found the session invalid wait for
\* another call's OAuth flow: starting its own flow is always possible.
C17_OAuthNotSingleFlight ==
    \A p \in Procs : inv[p].pc = "login_oauth" => ENABLED LoginOAuth(p)

\* Two login calls each have an OAuth flow in progress.
C17_Witness ==
    \A p \in Procs :
        /\ inv[p].tool = "login"
        /\ ~inv[p].authOk
        /\ inv[p].pc \in {"login_browser", "login_wait"}
        /\ "login_oauth" \in Range(inv[p].sites)

\* The sites that are calls to the file system, not to the remote service.
FileSites == {"login_open", "login_write"}

NoSiteTwice(r) ==
    \A i, j \in 1..Len(r.sites) : r.sites[i] = r.sites[j] => i = j

DefaultPlaylistLimit == 100

\* The caller created a playlist, added two tracks to it, and its call of
\* get_playlist_tracks on it has returned.
ScenarioDone(r) ==
    /\ hist.stage = 2
    /\ r.tool = "get_playlist_tracks"
    /\ r.id = hist.pl
    /\ r.limit = DefaultPlaylistLimit
    /\ r.pc = "done"
    /\ r.outcome = "result"

\* C19: create_playlist, then add_tracks_to_playlist on the new id with two
\* track ids, then get_playlist_tracks on that id returns those two tracks in
\* the order added, with count 2.
C19_CreateAddGet ==
    \A p \in Procs :
        ScenarioDone(inv[p]) =>
            /\ inv[p].ret = IntsOf(hist.ids)
            /\ Len(inv[p].ret) = 2
            /\ inv[p].count = 2

\* The scenario has run with the tracks "111" and "222".
C19_Witness ==
    \E p \in Procs :
        /\ ScenarioDone(inv[p])
        /\ hist.ids = <<S111, S222>>
        /\ inv[p].ret = <<111, 222>>

\* get_album has returned a second time, the album unchanged since the first.
SecondAlbum(r) ==
    /\ r.tool = "get_album"
    /\ r.pc = "done"
    /\ r.outcome = "result"
    /\ hist.last # <<>>

\* C20: a second get_album on the same id, with no change of the album since
\* the first, returns a result equal to the first in every field.
C20_GetAlbumIdempotent ==
    \A p \in Procs : SecondAlbum(inv[p]) => inv[p].ret = hist.last

\* get_album has returned twice for the album without artist and date.
C20_Witness ==
    \E p \in Procs :
        /\ SecondAlbum(inv[p])
        /\ album = SparseAlbum
        /\ inv[p].ret[1].artist = "Unknown Artist"

\* C21: when the one login call of a new server process has ended, the
\* session file is the one authenticate.py leaves from the same file and the
\* same answers of the library.
C21_ScriptLeavesSameFile ==
    \A p \in Procs :
        (inv[p].tool = "login" /\ inv[p].pc = "done") =>
            file = ScriptFile(inv[p].file0, inv[p].heard)

\* C22: the count a playlist mutation reports is the number of tracks it
\* changed: tracks_added of add_tracks_to_playlist is the number of tracks the
\* call added to the remote playlist, tracks_removed of
\* remove_tracks_from_playlist the number it removed.
PlaylistMutations == {"add_tracks_to_playlist", "remove_tracks_from_playlist"}

C22_CountIsTracksChanged ==
    \A p \in Procs :
        (inv[p].tool \in PlaylistMutations /\ inv[p].pc = "done"
            /\ inv[p].outcome = "result") =>
            inv[p].count = inv[p].delta

\* C23: in the result of every tool that lists tracks or albums, an item
\* whose upstream artist is absent has the artist name "Unknown Artist".
C23_AbsentArtistIsPlaceholder ==
    \A p \in Procs :
        (ProjectsArtist(inv[p].tool) /\ inv[p].pc = "done"
            /\ inv[p].outcome = "result" /\ inv[p].count > 0
            /\ inv[p].upArtist = Null) =>
            inv[p].artist = "Unknown Artist"

\* C24: get_playlist_tracks and get_user_playlists return at most limit
\* items, for every integer limit and every remote list (stated for the
\* limits of zero and more, which a count can meet).
TruncatingTools == {"get_playlist_tracks", "get_user_playlists"}

C24_LimitIsMaximum ==
    \A p \in Procs :
        (inv[p].tool \in TruncatingTools /\ inv[p].pc = "done"
            /\ inv[p].outcome = "result" /\ inv[p].limit >= 0) =>
            inv[p].count <= inv[p].limit

\* C25: the favorites changes and the playlist mutations raise "Invalid ...
\* ID format" only when an identifier string given by the caller failed to
\* parse as an integer; a fault of the remote call is Operation-Failed.
C25_InvalidIdOnlyFromParsing ==
    \A p \in Procs :
        (inv[p].tool \in FavModTools \cup PlaylistMutations
            /\ inv[p].pc = "done" /\ inv[p].outcome = "InvalidId") =>
            BadIdentifiers(inv[p])

\* C26: a session file written by a successful login is not destroyed by a
\* concurrent tool call: once login has saved the bundle and returned, and
\* the other call has returned, the file holds the saved credentials.
C26_SavedFileSurvives ==
    \A p \in Procs : \A q \in Procs \ {p} :
        (/\ inv[p].tool = "login" /\ inv[p].pc = "done"
         /\ inv[p].outcome = "result" /\ inv[p].heard.write = "ok"
         /\ inv[q].tool \in ReadOnlyTools /\ inv[q].pc = "done") =>
            file = FileOf("bundle", inv[p].data)

\* C27: login called while ensure_authenticated reports a valid session
\* returns success (authenticated) at once: no OAuth flow is started, no
\* browser opened, and the session file is neither written nor changed.
LoginSites ==
    {"login_oauth", "login_browser", "login_wait", "login_check",
     "login_open", "login_write"}

C28_UpdateSendsOnlySupplied ==
    \A p \in Procs :
        LET r == inv[p]
        IN  r.tool = "update_playlist" =>
              /\ (r.sent # NoMeta /\ ~TruthyStr(r.name)) =>
                     /\ r.description # Null
                     /\ r.sent.name = r.cur.name
                     /\ r.sent.description = r.description
              /\ (r.sent # NoMeta /\ TruthyStr(r.name)
                      /\ r.description = Null) =>
                     /\ r.sent.name = r.name
                     /\ r.sent.description = Null
              /\ (~TruthyStr(r.name) /\ r.description = Null /\ r.authOk) =>
                     /\ r.pc \in {"body", "done"}
                     /\ r.pc = "done" => r.outcome = "BadRequest"
                     /\ r.calls = 0

C28_Witness ==
    \E p \in Procs :
        /\ inv[p].tool = "update_playlist" /\ inv[p].pc = "done"
        /\ inv[p].outcome = "result"
        /\ inv[p].name = Null /\ inv[p].description = "d"
        /\ inv[p].sent = [name |-> "n0", description |-> "d"]

\* C29: get_artist does not fail when only the biography lookup faults: with
\* the artist found and get_bio raising, it returns success with the
\* artist's id, name and url, and with bio absent.
C29_BioFaultIsNotFailure ==
    \A p \in Procs :
        (inv[p].tool = "get_artist" /\ inv[p].found /\ inv[p].bioFault) =>
            /\ inv[p].pc = "done"
            /\ inv[p].outcome = "result"
            /\ inv[p].ret = <<ArtistProjection(Null)>>

C29_Witness ==
    \E p \in Procs :
        /\ inv[p].tool = "get_artist" /\ inv[p].bioFault
        /\ inv[p].pc = "done" /\ inv[p].calls = 2

Next ==
    \/ \E p \in Procs :
          \/ Start(p) \/ Finish(p) \/ EnsureAuthenticated(p) \/ Login(p)
          \/ Body(p)
    \/ OtherClientDeletes

Spec == Init /\ [][Next]_vars

====
